---- MODULE Spec2Model ----
(***************************************************************************)
(* Model of homework.py: a bot that polls the homework-status API and      *)
(* forwards status changes to a Telegram chat.                             *)
(*                                                                         *)
(* The Russian string literals of the source are written here in Latin     *)
(* transliteration, because the module text is ASCII; every literal keeps  *)
(* its own distinct text.                                                  *)
(***************************************************************************)
EXTENDS Integers, Sequences, FiniteSets, TLC

(* ---------------------------- bounds ----------------------------------- *)

\* longest 'homeworks' list the server returns
MaxLen == 2
\* number of polls a run may issue
MaxPolls == 2
\* number of consecutive failures of one delivery
MaxFails == 2

(* ------------------------ program constants ---------------------------- *)

RETRY_PERIOD == 600

\* the three names read from the environment
TokenNames == {"PRACTICUM_TOKEN", "TELEGRAM_TOKEN", "TELEGRAM_CHAT_ID"}
\* os.getenv gives None (unset), '' (empty) or a non-empty string
TokenValues == {"None", "", "secret"}

\* int(time.time()) when main() starts
StartTime == 1700000000

(* --------------------------- input domains ----------------------------- *)

\* marks a key that the mapping does not contain
Absent == "<absent>"
NoDate == -1

Names == {"Task 1"}
KnownStatuses == {"approved", "reviewing", "rejected"}
Statuses == KnownStatuses \cup {"unknown"}
CurrentDates == {NoDate, 1700000100}

\* one element of 'homeworks': a dict that may lack either key
Homeworks == [homework_name : Names \cup {Absent}, status : Statuses \cup {Absent}]

HomeworkLists == UNION {[1..n -> Homeworks] : n \in 0..MaxLen}

\* decoded bodies: a dict with a 'homeworks' list, or one of the malformed shapes
GoodBodies == [shape : {"ok"}, homeworks : HomeworkLists, current_date : CurrentDates]
BadBodies == [shape : {"notjson", "nondict", "nokey", "nonlist"},
              homeworks : {<<>>}, current_date : {NoDate}]
Bodies == GoodBodies \cup BadBodies
NoBody == [shape |-> "none", homeworks |-> <<>>, current_date |-> NoDate]

StatusCodes == {200, 201, 404}

\* what the network does with one GET: the connection fails, or a response arrives
NetOutcomes == {[conn |-> "error", status_code |-> 0, body |-> NoBody]}
               \cup [conn : {"ok"}, status_code : StatusCodes, body : Bodies]
NoNet == [conn |-> "none", status_code |-> 0, body |-> NoBody]

(* --------------------------- pure functions ---------------------------- *)

HOMEWORK_VERDICTS_Swapped ==
    [approved  |-> "Rabota proverena: u revyuera est zamechaniya.",
     reviewing |-> "Rabota vzyata na proverku revyuerom.",
     rejected  |-> "Rabota proverena: revyueru vsyo ponravilos. Ura!"]

HOMEWORK_VERDICTS ==
    [approved  |-> "Rabota proverena: revyueru vsyo ponravilos. Ura!",
     reviewing |-> "Rabota vzyata na proverku revyuerom.",
     rejected  |-> "Rabota proverena: u revyuera est zamechaniya."]

\* a call either returns a value or raises an exception with a text
Return(v) == [raised |-> FALSE, exc |-> "", value |-> v]
Raise(e, t) == [raised |-> TRUE, exc |-> e, value |-> t]

\* str(error): KeyError shows the repr of its argument
str(result) ==
    IF result.exc = "KeyError" THEN "'" \o result.value \o "'" ELSE result.value

\* HOMEWORK_VERDICTS.get(homework_status)
VerdictGet(homework_status) ==
    IF homework_status \in DOMAIN HOMEWORK_VERDICTS
    THEN HOMEWORK_VERDICTS[homework_status] ELSE "None"

parse_status(homework) ==
    IF homework.homework_name = Absent
    THEN Raise("ValueError", "Otsutstvuet klyuch \"homework_name\" v otvete API")
    ELSE IF homework.status = Absent
    THEN Raise("ValueError", "Otsutstvuet klyuch \"status\" v otvete API")
    ELSE IF VerdictGet(homework.status) = "None"
    THEN Raise("ValueError", "Neizvestnyy status raboty \"" \o homework.homework_name
                             \o "\": " \o homework.status)
    ELSE Return("Izmenilsya status proverki raboty \"" \o homework.homework_name
                \o "\". " \o VerdictGet(homework.status))

check_response_NoKeyCheck(response) ==
    IF response.shape = "nondict"
    THEN Raise("TypeError", "Otvet ot API dolzhen byt predstavlen v vide slovarya")
    ELSE IF response.shape = "nonlist"
    THEN Raise("TypeError", "Dannye dlya klyucha \"homeworks\" ")
    ELSE Return("None")

check_response(response) ==
    IF response.shape = "nondict"
    THEN Raise("TypeError", "Otvet ot API dolzhen byt predstavlen v vide slovarya")
    ELSE IF response.shape = "nokey"
    THEN Raise("KeyError", "Otsutstvuet klyuch \"homeworks\" v otvete ot API")
    ELSE IF response.shape = "nonlist"
    THEN Raise("TypeError", "Dannye dlya klyucha \"homeworks\" ")
    ELSE Return("None")

\* response.json()
Json(body) ==
    IF body.shape = "notjson"
    THEN [raised |-> TRUE, exc |-> "JSONDecodeError", body |-> NoBody,
          value |-> "Expecting value: line 1 column 1 (char 0)"]
    ELSE [raised |-> FALSE, exc |-> "", body |-> body, value |-> ""]

get_api_answer(net) ==
    IF net.conn = "error"
    THEN \* requests.get raised: the handler reads the unassigned local 'response'
         \* (the wording of the UnboundLocalError is that of CPython up to 3.10)
         [raised |-> TRUE, exc |-> "UnboundLocalError", body |-> NoBody,
          value |-> "local variable 'response' referenced before assignment"]
    ELSE IF net.status_code >= 400
    THEN \* raise_for_status raised: the handler returns the body of the failed response
         Json(net.body)
    ELSE IF net.status_code # 200
    THEN [raised |-> TRUE, exc |-> "AssertionError", body |-> NoBody,
          value |-> "Proizoshla oshibka pri zaprose API"]
    ELSE Json(net.body)

\* bot.send_message(chat_id=..., text=...) delivers, or raises
BotOutcomes == {"ok", "TelegramError"}

send_message_Raises(b) ==
    IF b = "ok" THEN Return("True") ELSE Raise("TelegramError", "Timed out")

\* send_message: True after the client call, False when it raised
send_message(b) ==
    IF b = "ok" THEN Return("True") ELSE Return("False")

check_tokens_NoneOnly(env) == \A t \in TokenNames : env[t] # "None"

\* all((PRACTICUM_TOKEN, TELEGRAM_TOKEN, TELEGRAM_CHAT_ID))
check_tokens(env) == \A t \in TokenNames : env[t] \notin {"None", ""}

(* ------------------------------ state ---------------------------------- *)

VARIABLES
    pc,          \* position of main(): start, poll, check, for, send, retry_sleep,
                 \*   sleep, except, except_sleep, exited
    env,         \* the environment variables
    now,         \* wall clock
    timestamp,   \* local 'timestamp' of main()
    net,         \* what the network did with the request of this cycle
    response,    \* local 'response' of main()
    i,           \* position of the for loop in 'homeworks'
    message,     \* local 'message' of main()
    error,       \* the exception bound by 'except Exception as error'
    fails,       \* failed deliveries of the current message so far
    polls,       \* number of calls of get_api_answer so far
    exitCode,    \* exit status of the process, -1 while it runs
    exitReason,  \* why the process ended
    trace,       \* history: the calls made so far, in order
    bot          \* what the chat client did with the last bot.send_message call

vars == <<pc, env, now, timestamp, net, response, i, message, error, fails, polls,
          exitCode, exitReason, trace, bot>>

NoError == Return("")

\* one entry of the history
\*   poll : n = from_date,                     ok = get_api_answer returned
\*   check: n = 'current_date' of the response, ok = check_response returned
\*   parse: n = index of the record,           ok = parse_status returned
\*   send : n = index of the record (0 for the failure notice), text = the message,
\*          ok = send_message returned True
\*   sleep: n = seconds slept
Ev(op, n, text, ok) == [op |-> op, n |-> n, text |-> text, ok |-> ok, at |-> now]

Init ==
    /\ pc = "start"
    /\ env \in [TokenNames -> TokenValues]
    /\ now = StartTime
    /\ timestamp = 0
    /\ net = NoNet
    /\ response = NoBody
    /\ i = 0
    /\ message = ""
    /\ error = NoError
    /\ fails = 0
    /\ polls = 0
    /\ exitCode = -1
    /\ exitReason = ""
    /\ trace = <<>>
    /\ bot = "none"

Exit(code, reason) ==
    /\ pc' = "exited"
    /\ exitCode' = code
    /\ exitReason' = reason

(* ----------------------------- actions --------------------------------- *)

\* main(), lines 126-128: check_tokens(), the Bot, the first timestamp
Start ==
    /\ pc = "start"
    /\ IF check_tokens(env)
       THEN /\ pc' = "poll"
            /\ timestamp' = now
            /\ UNCHANGED <<exitCode, exitReason>>
       ELSE /\ Exit(1, "credentials")
            /\ UNCHANGED timestamp
    /\ UNCHANGED <<bot, env, now, net, response, i, message, error, fails, polls, trace>>

\* response = get_api_answer(timestamp)
Poll ==
    /\ pc = "poll"
    /\ polls < MaxPolls
    /\ \E n \in NetOutcomes :
         LET r == get_api_answer(n) IN
         /\ net' = n
         /\ polls' = polls + 1
         /\ trace' = Append(trace, Ev("poll", timestamp, "", ~r.raised))
         /\ IF r.raised
            THEN /\ pc' = "except"
                 /\ error' = Raise(r.exc, r.value)
                 /\ UNCHANGED response
            ELSE /\ pc' = "check"
                 /\ response' = r.body
                 /\ UNCHANGED error
    /\ UNCHANGED <<bot, env, now, timestamp, i, message, fails, exitCode, exitReason>>

\* a variant that treats an empty 'homeworks' list as an error
Check_EmptyIsError ==
    /\ pc = "check"
    /\ LET r == check_response(response) IN
       /\ trace' = Append(trace, Ev("check", response.current_date, "", ~r.raised))
       /\ IF r.raised \/ response.homeworks = <<>>
          THEN /\ pc' = "except"
               /\ error' = IF r.raised THEN r ELSE Raise("ValueError", "empty")
               /\ UNCHANGED i
          ELSE /\ pc' = "for"
               /\ i' = 1
               /\ UNCHANGED error
    /\ UNCHANGED <<bot, env, now, timestamp, net, response, message, fails, polls,
                   exitCode, exitReason>>

\* check_response(response); homeworks = response.get('homeworks', []); if homeworks:
Check ==
    /\ pc = "check"
    /\ LET r == check_response(response) IN
       /\ trace' = Append(trace, Ev("check", response.current_date, "", ~r.raised))
       /\ IF r.raised
          THEN /\ pc' = "except"
               /\ error' = r
               /\ UNCHANGED i
          ELSE /\ pc' = IF response.homeworks = <<>> THEN "sleep" ELSE "for"
               /\ i' = 1
               /\ UNCHANGED error
    /\ UNCHANGED <<bot, env, now, timestamp, net, response, message, fails, polls,
                   exitCode, exitReason>>

\* one step of 'for homework in homeworks': skip, or parse_status
For ==
    /\ pc = "for"
    /\ IF i > Len(response.homeworks)
       THEN /\ pc' = "sleep"
            /\ UNCHANGED <<i, message, error, fails, trace>>
       ELSE IF response.homeworks[i].status = Absent
       THEN /\ i' = i + 1
            /\ UNCHANGED <<pc, message, error, fails, trace>>
       ELSE LET r == parse_status(response.homeworks[i]) IN
            /\ trace' = Append(trace, Ev("parse", i, r.value, ~r.raised))
            /\ IF r.raised
               THEN /\ pc' = "except"
                    /\ error' = r
                    /\ UNCHANGED <<message, fails>>
               ELSE /\ pc' = "send"
                    /\ message' = r.value
                    /\ fails' = 0
                    /\ UNCHANGED error
            /\ UNCHANGED i
    /\ UNCHANGED <<bot, env, now, timestamp, net, response, polls, exitCode, exitReason>>

\* where 'while not send_message(bot, message)' goes after one attempt
AfterSend_NoSleep(ok) == IF ok THEN "exited" ELSE "send"

AfterSend(ok) == IF ok THEN "exited" ELSE "retry_sleep"

\* one attempt of send_message(bot, message) for a status message; after a
\* delivery the loop body raises SystemExit('break')
Send ==
    /\ pc = "send"
    /\ \E b \in BotOutcomes :
         LET r == send_message(b)
             ok == ~r.raised /\ r.value = "True"
         IN
         /\ b = "ok" \/ fails < MaxFails
         /\ bot' = b
         /\ trace' = Append(trace, Ev("send", i, message, ok))
         /\ IF r.raised
            THEN /\ pc' = "except"
                 /\ error' = r
                 /\ UNCHANGED <<fails, exitCode, exitReason>>
            ELSE IF AfterSend(ok) = "exited"
            THEN /\ Exit(1, "break")
                 /\ UNCHANGED <<fails, error>>
            ELSE /\ pc' = AfterSend(ok)
                 /\ fails' = fails + 1
                 /\ UNCHANGED <<error, exitCode, exitReason>>
    /\ UNCHANGED <<env, now, timestamp, net, response, i, message, polls>>

\* a variant that gives up the pending message and polls again
RetrySleep_Repoll ==
    /\ pc = "retry_sleep"
    /\ now' = now + RETRY_PERIOD
    /\ trace' = Append(trace, Ev("sleep", RETRY_PERIOD, "", TRUE))
    /\ pc' = "poll"
    /\ UNCHANGED <<bot, env, timestamp, net, response, i, message, error, fails, polls,
                   exitCode, exitReason>>

\* time.sleep(RETRY_PERIOD) inside the delivery loop
RetrySleep ==
    /\ pc = "retry_sleep"
    /\ now' = now + RETRY_PERIOD
    /\ trace' = Append(trace, Ev("sleep", RETRY_PERIOD, "", TRUE))
    /\ pc' = "send"
    /\ UNCHANGED <<bot, env, timestamp, net, response, i, message, error, fails, polls,
                   exitCode, exitReason>>

\* a variant that starts the next iteration without sleeping
CycleSleep_NoSleep ==
    /\ pc = "sleep"
    /\ pc' = "poll"
    /\ net' = NoNet
    /\ response' = NoBody
    /\ i' = 0
    /\ UNCHANGED <<bot, env, now, timestamp, message, error, fails, polls, exitCode,
                   exitReason, trace>>

\* a variant that takes the next cursor from the response
CycleSleep_CursorFromResponse ==
    /\ pc = "sleep"
    /\ now' = now + RETRY_PERIOD
    /\ trace' = Append(trace, Ev("sleep", RETRY_PERIOD, "", TRUE))
    /\ pc' = "poll"
    /\ timestamp' = IF response.current_date = NoDate THEN 0 ELSE response.current_date
    /\ net' = NoNet
    /\ response' = NoBody
    /\ i' = 0
    /\ UNCHANGED <<bot, env, message, error, fails, polls, exitCode, exitReason>>

\* time.sleep(RETRY_PERIOD) at the end of the loop body, then the next
\* iteration.  'timestamp' is not assigned.  The locals 'response' and
\* 'homework' are dead at the loop head (the next statement rebinds or
\* abandons them), so they are put back to their initial values.
CycleSleep ==
    /\ pc = "sleep"
    /\ now' = now + RETRY_PERIOD
    /\ trace' = Append(trace, Ev("sleep", RETRY_PERIOD, "", TRUE))
    /\ pc' = "poll"
    /\ net' = NoNet
    /\ response' = NoBody
    /\ i' = 0
    /\ UNCHANGED <<bot, env, timestamp, message, error, fails, polls, exitCode, exitReason>>

\* a variant that repeats the failure notice until it is delivered
Except_Retries ==
    /\ pc = "except"
    /\ \E b \in BotOutcomes :
         LET r == send_message(b)
             ok == ~r.raised /\ r.value = "True"
         IN
         /\ bot' = b
         /\ trace' = Append(trace, Ev("send", 0, "Sboy v rabote programmy: " \o str(error), ok))
         /\ pc' = IF ok THEN "except_sleep" ELSE "except"
    /\ UNCHANGED <<env, now, timestamp, net, response, i, message, error, fails, polls,
                   exitCode, exitReason>>

\* except Exception as error: one send_message of the failure notice; an
\* exception raised inside the handler would leave main() uncaught
Except ==
    /\ pc = "except"
    /\ \E b \in BotOutcomes :
         LET r == send_message(b)
             ok == ~r.raised /\ r.value = "True"
         IN
         /\ bot' = b
         /\ trace' = Append(trace, Ev("send", 0, "Sboy v rabote programmy: " \o str(error), ok))
         /\ IF r.raised
            THEN Exit(1, "crash")
            ELSE /\ pc' = "except_sleep"
                 /\ UNCHANGED <<exitCode, exitReason>>
    /\ UNCHANGED <<env, now, timestamp, net, response, i, message, error, fails, polls>>

\* ... then time.sleep(RETRY_PERIOD) and return: main() ends, exit status 0
ExceptSleep ==
    /\ pc = "except_sleep"
    /\ now' = now + RETRY_PERIOD
    /\ trace' = Append(trace, Ev("sleep", RETRY_PERIOD, "", TRUE))
    /\ Exit(0, "fatal")
    /\ UNCHANGED <<bot, env, timestamp, net, response, i, message, error, fails, polls>>

\* positions inside the try block of main()
InTry == {"poll", "check", "for", "send", "retry_sleep", "sleep"}

\* Ctrl-C: inside the try block it becomes SystemExit(<text>), exit status 1;
\* elsewhere the KeyboardInterrupt is not caught and the interpreter dies of it
KeyboardInterrupt ==
    /\ pc # "exited"
    /\ IF pc \in InTry THEN Exit(1, "interrupt") ELSE Exit(130, "interrupt")
    /\ UNCHANGED <<bot, env, now, timestamp, net, response, i, message, error, fails, polls,
                   trace>>

Next ==
    \/ Start
    \/ Poll
    \/ Check
    \/ For
    \/ Send
    \/ RetrySleep
    \/ CycleSleep
    \/ Except
    \/ ExceptSleep
    \/ KeyboardInterrupt

Spec == Init /\ [][Next]_vars

TypeOK ==
    /\ pc \in {"start", "poll", "check", "for", "send", "retry_sleep", "sleep",
               "except", "except_sleep", "exited"}
    /\ polls \in 0..MaxPolls
    /\ fails \in 0..MaxFails
    /\ timestamp \in {0, StartTime}

(* ---------------------- reading the history ---------------------------- *)

Idx == 1..Len(trace)
PollIdx == {k \in Idx : trace[k].op = "poll"}
Max(S) == CHOOSE m \in S : \A k \in S : k <= m

\* position of the poll that opened the current cycle, 0 before the first poll
LastPoll == IF PollIdx = {} THEN 0 ELSE Max(PollIdx)

\* positions of the events of the current cycle
CycleIdx == {k \in Idx : LastPoll # 0 /\ k >= LastPoll}

IsStatusSend(e) == e.op = "send" /\ e.n > 0
IsDelivered(e) == IsStatusSend(e) /\ e.ok

\* texts of a sequence of events
Texts(es) == [k \in 1..Len(es) |-> es[k].text]

\* the events of the current cycle, in order
Cycle == IF LastPoll = 0 THEN <<>> ELSE SubSeq(trace, LastPoll, Len(trace))

\* the response was accepted by check_response in this cycle
Validated == \E k \in CycleIdx : trace[k].op = "check" /\ trace[k].ok

WellFormed(homework) ==
    homework.homework_name # Absent /\ homework.status \in KnownStatuses
LacksField(homework) ==
    homework.homework_name = Absent \/ homework.status = Absent

Contains(s, t) ==
    \E a \in 1..(Len(s) - Len(t) + 1) : SubSeq(s, a, a + Len(t) - 1) = t

\* the loop body has run to its end, or the process ended in it
CycleOver == pc = "sleep" \/ (pc = "exited" /\ exitReason = "break")

(* ------------------------------ claims --------------------------------- *)

\* C1: for a valid response with N well-formed records of known status and
\* deliveries that all succeed, one cycle delivers exactly the N translated
\* messages, in list order.
C1_DeliversAllInOrder ==
    ( /\ response.shape = "ok"
      /\ Validated
      /\ \A k \in 1..Len(response.homeworks) : WellFormed(response.homeworks[k])
      /\ \A k \in CycleIdx : trace[k].op = "send" => trace[k].ok
      /\ CycleOver )
    => Texts(SelectSeq(Cycle, IsDelivered))
         = [k \in 1..Len(response.homeworks) |-> parse_status(response.homeworks[k]).value]

\* C2: the process ends only on a credential failure, on an in-loop fatal
\* error or on an interrupt; a delivered notification never ends it.
C2_DeliveryNeverEndsProcess ==
    pc = "exited" => exitReason \in {"credentials", "fatal", "interrupt"}

TransportFailed(n) ==
    \/ n.conn = "error"
    \/ n.conn = "ok" /\ n.status_code \notin 200..299

\* C3: after a transport failure of the poll the loop is not ended: no status
\* notification, the cursor as it was, and the next thing is the sleep before
\* the next poll.
C3_TransportFailureNotFatal ==
    TransportFailed(net) =>
        /\ pc = "sleep" \/ (pc = "exited" /\ exitReason = "interrupt")
        /\ \A k \in CycleIdx : ~IsStatusSend(trace[k])
        /\ timestamp = trace[LastPoll].n

\* position of the parse_status call that produced the message sent at k
ParseOf(k) == Max({p \in 1..k : trace[p].op = "parse"})

\* C4: a message whose delivery fails K times and then succeeds is attempted
\* exactly K+1 times, a sleep of RETRY_PERIOD lies between consecutive
\* attempts, and nothing else (no other message, no poll) comes in between.
C4_RetriesSameMessage ==
    \A k \in Idx : IsStatusSend(trace[k]) =>
        /\ (~trace[k].ok /\ k + 1 <= Len(trace)) =>
               trace[k + 1].op = "sleep" /\ trace[k + 1].n = RETRY_PERIOD
        /\ (~trace[k].ok /\ k + 2 <= Len(trace)) =>
               /\ IsStatusSend(trace[k + 2])
               /\ trace[k + 2].n = trace[k].n
               /\ trace[k + 2].text = trace[k].text
        /\ trace[k].ok =>
               LET p == ParseOf(k)
                   attempts == {a \in (p + 1)..k : trace[a].op = "send"}
                   failed == {a \in attempts : ~trace[a].ok}
                   sleeps == {a \in (p + 1)..k : trace[a].op = "sleep"}
               IN /\ trace[p].n = trace[k].n /\ trace[p].text = trace[k].text
                  /\ \A a \in attempts : trace[a].n = trace[k].n
                                         /\ trace[a].text = trace[k].text
                  /\ attempts \cup sleeps = (p + 1)..k
                  /\ Cardinality(attempts) = Cardinality(failed) + 1
                  /\ Cardinality(sleeps) = Cardinality(failed)
                  /\ (k = Len(trace) => Cardinality(attempts) = fails + 1)
                  /\ \A a \in Idx : (a > k /\ IsStatusSend(trace[a]))
                                    => trace[a].n # trace[k].n

\* a message was delivered at the third attempt
C4_Witness ==
    /\ pc = "exited" /\ exitReason = "break"
    /\ fails = 2
    /\ Cardinality({k \in Idx : IsStatusSend(trace[k])}) = 3

Invalid(r) == r.shape \in {"nondict", "nokey", "nonlist"}
Checked == \E k \in CycleIdx : trace[k].op = "check"

\* C5 as stated: an invalid response makes check_response raise, no record
\* is translated, no notification at all is sent, and the loop ends without
\* another poll.
C5_NoNotificationAtAll ==
    (Invalid(response) /\ Checked) =>
        /\ \A k \in CycleIdx : trace[k].op = "check" => ~trace[k].ok
        /\ \A k \in CycleIdx : trace[k].op # "parse"
        /\ \A k \in CycleIdx : trace[k].op # "send"
        /\ pc \in {"except", "except_sleep", "exited"}

\* C5 as amended: an invalid response makes check_response raise, no record
\* is translated, no status notification is sent (the failure notice is tried
\* once), and the loop ends without another poll.
C5_NoStatusNotification ==
    (Invalid(response) /\ Checked) =>
        /\ \A k \in CycleIdx : trace[k].op = "check" => ~trace[k].ok
        /\ \A k \in CycleIdx : trace[k].op # "parse"
        /\ \A k \in CycleIdx : ~IsStatusSend(trace[k])
        /\ Cardinality({k \in CycleIdx : trace[k].op = "send"}) <= 1
        /\ pc \in {"except", "except_sleep", "exited"}
        /\ pc = "exited" => exitReason \in {"fatal", "interrupt"}
        /\ pc = "except_sleep" =>
               Cardinality({k \in CycleIdx : trace[k].op = "send"}) = 1

\* the process ended on a response without the 'homeworks' key
C5_Witness ==
    /\ pc = "exited" /\ exitReason = "fatal"
    /\ response.shape = "nokey"
    /\ \E k \in CycleIdx : trace[k].op = "check" /\ ~trace[k].ok

\* the poll that follows the poll at position j
NextPoll(j) == CHOOSE k \in PollIdx : k > j /\ \A m \in PollIdx : m > j => k <= m
\* the check_response call of the cycle opened at position j
CheckOf(j) == CHOOSE c \in Idx : c > j /\ trace[c].op = "check"
                                 /\ \A m \in PollIdx : m > j => c < m

\* C6: after a cycle whose response was validated, the next poll uses the
\* response's 'current_date' when it has one, else the time at which that
\* cycle started.
C6_CursorAdvances ==
    \A j \in PollIdx : (\E k \in PollIdx : k > j) =>
        trace[NextPoll(j)].n = IF trace[CheckOf(j)].n # NoDate
                               THEN trace[CheckOf(j)].n
                               ELSE trace[j].at

\* C7: the cursor passed to get_api_answer never decreases from one poll to a
\* later one, and differs between two polls only if a response was validated
\* in between.
C7_CursorMonotone ==
    /\ \A j, k \in PollIdx : j < k =>
          /\ trace[j].n <= trace[k].n
          /\ trace[j].n # trace[k].n =>
                \E c \in Idx : j < c /\ c < k /\ trace[c].op = "check" /\ trace[c].ok
    /\ LastPoll # 0 => trace[LastPoll].n <= timestamp
    /\ (LastPoll # 0 /\ ~Validated) => trace[LastPoll].n = timestamp

\* a second poll was made, after a validated cycle that ended in the sleep
C7_Witness ==
    /\ Cardinality(PollIdx) >= 2
    /\ \E c \in Idx : c < LastPoll /\ trace[c].op = "check" /\ trace[c].ok
    /\ trace[LastPoll - 1].op = "sleep"

\* C8: a record with a name and a status outside the three known ones is
\* translated without an error, into a message that contains the raw status.
C8_UnknownStatusIsNoError ==
    \A k \in CycleIdx :
        ( /\ trace[k].op = "parse"
          /\ response.homeworks[trace[k].n].homework_name # Absent
          /\ response.homeworks[trace[k].n].status \notin KnownStatuses )
        => /\ trace[k].ok
           /\ Contains(trace[k].text, response.homeworks[trace[k].n].status)
           /\ pc \notin {"except", "except_sleep"}
           /\ exitReason # "fatal"

\* the loop body is over, normally or by an exception
CycleSettled ==
    \/ pc \in {"sleep", "except", "except_sleep"}
    \/ pc = "exited" /\ exitReason \in {"break", "fatal"}

\* C9: in a valid response whose records are well-formed or lack a field, a
\* record that lacks a field is skipped (no message, no end of the loop) and
\* every well-formed record has its notification delivered.
C9_MalformedRecordSkipped ==
    ( /\ response.shape = "ok"
      /\ Validated
      /\ \A k \in 1..Len(response.homeworks) :
            WellFormed(response.homeworks[k]) \/ LacksField(response.homeworks[k])
      /\ \E k \in 1..Len(response.homeworks) : LacksField(response.homeworks[k])
      /\ CycleSettled )
    => /\ pc \notin {"except", "except_sleep"}
       /\ exitReason # "fatal"
       /\ \A k \in 1..Len(response.homeworks) :
             /\ LacksField(response.homeworks[k]) =>
                   \A e \in CycleIdx : trace[e].op = "send" => trace[e].n # k
             /\ WellFormed(response.homeworks[k]) =>
                   \E e \in CycleIdx : IsDelivered(trace[e]) /\ trace[e].n = k

\* the message the documentation of parse_status promises for a known status
Expected(homework_name, status) ==
    "Izmenilsya status proverki raboty \"" \o homework_name \o "\". " \o
    ( CASE status = "approved"  -> "Rabota proverena: revyueru vsyo ponravilos. Ura!"
        [] status = "reviewing" -> "Rabota vzyata na proverku revyuerom."
        [] status = "rejected"  -> "Rabota proverena: u revyuera est zamechaniya." )

\* C10: for a record with a name and a known status parse_status returns the
\* fixed text made of the name and of the verdict of that status, and the
\* call changes nothing but the local 'message'.
C10_KnownStatusMessage ==
    \A k \in CycleIdx :
        ( /\ trace[k].op = "parse"
          /\ WellFormed(response.homeworks[trace[k].n]) )
        => LET homework == response.homeworks[trace[k].n] IN
           /\ trace[k].ok
           /\ trace[k].text = Expected(homework.homework_name, homework.status)
           /\ (homework.homework_name = "Task 1" /\ homework.status = "approved") =>
                 trace[k].text = "Izmenilsya status proverki raboty \"Task 1\". Rabota proverena: revyueru vsyo ponravilos. Ura!"
           /\ k = Len(trace) =>
                 /\ pc = "send" \/ (pc = "exited" /\ exitReason = "interrupt")
                 /\ message = trace[k].text
                 /\ timestamp = trace[LastPoll].n
                 /\ i = trace[k].n

\* parse_status has just returned the message of 'Task 1', approved
C10_Witness ==
    /\ pc = "send" /\ fails = 0
    /\ response.homeworks[i] = [homework_name |-> "Task 1", status |-> "approved"]
    /\ message = "Izmenilsya status proverki raboty \"Task 1\". Rabota proverena: revyueru vsyo ponravilos. Ura!"

Interrupted == pc = "exited" /\ exitReason = "interrupt"

\* C11: a poll that ended in a network failure or a non-success HTTP status
\* raises in get_api_answer: nothing is returned to main() and
\* check_response is not run in that cycle.
C11_FailedPollNotValidated ==
    (TransportFailed(net) /\ LastPoll # 0) =>
        /\ ~trace[LastPoll].ok
        /\ response = NoBody
        /\ \A k \in CycleIdx : trace[k].op # "check"

\* the response of this cycle is valid and its 'homeworks' list is empty
EmptyCycle == response.shape = "ok" /\ response.homeworks = <<>> /\ Validated

C12_State ==
    EmptyCycle =>
        /\ pc = "sleep" \/ Interrupted
        /\ \A k \in CycleIdx : trace[k].op \notin {"send", "parse"}
        /\ error = NoError
        /\ exitReason \in {"", "interrupt"}

C12_Step ==
    (EmptyCycle /\ pc = "sleep" /\ pc' # "exited") =>
        /\ pc' = "poll"
        /\ trace' = Append(trace, Ev("sleep", RETRY_PERIOD, "", TRUE))
        /\ now' = now + RETRY_PERIOD
        /\ UNCHANGED <<env, message, error, fails, polls, exitCode, exitReason, bot>>

\* C12: a valid response with an empty 'homeworks' list makes no delivery
\* attempt, raises nothing, does not end the loop, changes no state but the
\* cursor, and is followed by the sleep and the next poll, cycle after cycle.
C12_EmptyResponseIsNormal == [](C12_State) /\ [][C12_Step]_vars

\* the second poll in a row was answered with an empty list
C12_Witness ==
    /\ pc = "sleep" /\ EmptyCycle
    /\ polls = 2
    /\ \A k \in Idx : trace[k].op \in {"poll", "check", "sleep"}

MissingToken == \E t \in TokenNames : env[t] \in {"None", ""}

\* C13: with a configuration value absent or empty the process ends with a
\* non-zero status before the loop (no poll, no message); with all three
\* present check_tokens returns and the loop is entered.
C13_CredentialGate ==
    /\ MissingToken =>
          /\ trace = <<>> /\ polls = 0
          /\ pc \in {"start", "exited"}
          /\ pc = "exited" => exitCode # 0
          /\ (pc = "exited" /\ exitReason # "interrupt") =>
                 exitReason = "credentials" /\ exitCode = 1
    /\ ~MissingToken =>
          /\ exitReason # "credentials"
          /\ pc # "start" => \/ timestamp = StartTime
                             \/ Interrupted /\ trace = <<>>

\* the process ended on an empty TELEGRAM_CHAT_ID
C13_Witness ==
    /\ pc = "exited" /\ exitReason = "credentials" /\ exitCode = 1
    /\ env = [t \in TokenNames |-> IF t = "TELEGRAM_CHAT_ID" THEN "" ELSE "secret"]

\* C14: send_message returns True when the client call succeeds and False
\* when it raises, never raising itself, so a failed delivery alone leaves
\* the loop running (it goes on to the sleep before the retry).
C14_SendMessageNeverRaises ==
    /\ exitReason # "crash"
    /\ (Len(trace) > 0 /\ trace[Len(trace)].op = "send") =>
          /\ trace[Len(trace)].ok = (bot = "ok")
          /\ IsStatusSend(trace[Len(trace)]) =>
                /\ error = NoError
                /\ ~trace[Len(trace)].ok => pc = "retry_sleep" \/ Interrupted
          /\ ~IsStatusSend(trace[Len(trace)]) => pc = "except_sleep" \/ Interrupted

\* the chat client raised and the loop is about to sleep before the retry
C14_Witness ==
    /\ pc = "retry_sleep"
    /\ bot = "TelegramError"
    /\ trace[Len(trace)].op = "send" /\ ~trace[Len(trace)].ok

\* C15: exit status 0 only after an interrupt, 1 after a credential failure,
\* non-zero after a fatal error inside the loop.
C15_ExitCodes ==
    pc = "exited" =>
        /\ exitCode = 0 => exitReason = "interrupt"
        /\ exitReason = "credentials" => exitCode = 1
        /\ exitReason = "fatal" => exitCode # 0

\* C16: for every response with a 2xx status and a decodable body
\* get_api_answer returns that body without raising.
C16_AnySuccessStatusReturns ==
    ( /\ LastPoll # 0
      /\ net.conn = "ok"
      /\ net.status_code \in 200..299
      /\ net.body.shape # "notjson" )
    => /\ trace[LastPoll].ok
       /\ pc = "check" => response = net.body

\* the calls that raised an Exception inside the try block
FailIdx == {k \in Idx : trace[k].op \in {"poll", "check", "parse"} /\ ~trace[k].ok}
NoticeIdx == {k \in Idx : trace[k].op = "send" /\ trace[k].n = 0}

\* C17: after a poll, validation or translation failure the failure notice
\* is attempted exactly once, delivered or not, and then main() sleeps once
\* and ends; nothing else follows.
C17_FailureNoticeOnce ==
    /\ \A k \in FailIdx :
          /\ k = Len(trace) => pc = "except" \/ Interrupted
          /\ k < Len(trace) =>
                /\ trace[k + 1].op = "send" /\ trace[k + 1].n = 0
                /\ trace[k + 1].text = "Sboy v rabote programmy: " \o str(error)
          /\ k + 1 = Len(trace) => pc = "except_sleep" \/ Interrupted
          /\ k + 2 <= Len(trace) =>
                /\ trace[k + 2].op = "sleep"
                /\ Len(trace) = k + 2
                /\ pc = "exited" /\ exitReason = "fatal"
    /\ Cardinality(FailIdx) <= 1
    /\ Cardinality(NoticeIdx) <= 1
    /\ \A k \in NoticeIdx : k - 1 \in FailIdx
    /\ pc \in {"except", "except_sleep"} => FailIdx # {}
    /\ exitReason = "fatal" => Cardinality(NoticeIdx) = 1

\* main() ended after a failure notice that was not delivered
C17_Witness ==
    /\ pc = "exited" /\ exitReason = "fatal"
    /\ \E k \in NoticeIdx : ~trace[k].ok
    /\ \E k \in FailIdx : trace[k].op = "parse"

\* C18: between two calls of get_api_answer there is a sleep of RETRY_PERIOD.
C18_SleepBetweenPolls ==
    \A j, k \in PollIdx : j < k =>
        /\ \E m \in Idx : j < m /\ m < k /\ trace[m].op = "sleep"
                          /\ trace[m].n = RETRY_PERIOD
        /\ trace[k].at >= trace[j].at + RETRY_PERIOD

\* the second poll has been answered
C18_Witness ==
    /\ pc = "check"
    /\ Cardinality(PollIdx) = 2
    /\ trace[Len(trace)].op = "poll"

\* a status message has failed at least once and is not delivered yet
Pending == pc \in {"send", "retry_sleep"} /\ fails > 0

C19_Step ==
    Pending =>
        /\ pc' \in {"send", "retry_sleep", "exited"}
        /\ UNCHANGED <<timestamp, polls, net, response, i, message, error>>
        /\ \/ trace' = trace
           \/ /\ Len(trace') = Len(trace) + 1
              /\ SubSeq(trace', 1, Len(trace)) = trace
              /\ LET e == trace'[Len(trace')] IN
                 \/ e.op = "sleep" /\ e.n = RETRY_PERIOD
                 \/ e.op = "send" /\ e.n = i /\ e.text = message

\* C19: while a status message is pending, main() polls nothing, translates
\* nothing and leaves the cursor alone: it only sleeps and sends that message.
C19_PendingFrame == [][C19_Step]_vars

\* the message has failed twice and is about to be tried a third time
C19_Witness ==
    /\ pc = "send" /\ fails = 2
    /\ trace[Len(trace)].op = "sleep"

====
